---- MODULE Spec2Model ----
(***************************************************************************)
(* A model of the three notebooks: k-anonymity (src/code/k-anonymity.py),  *)
(* geomasking (src/code/Geomasking.py) and differential privacy            *)
(* (src/code/DifferentialPrivacy.py).  Every notebook cell or function     *)
(* that changes program state is one action.  The specifications:          *)
(*   Spec       the spatial cloaking cells (lines 153-336),                *)
(*   SpecRank   the same cells up to the choice of the focal row (line     *)
(*              271), on smaller frames,                                   *)
(*   SpecWalk   the attribute-conditioned walk (lines 348-366),            *)
(*   SpecGroup  binning, grouping and the k filter (lines 55-86).          *)
(*   SpecCond   the cloaking cells followed by the walk (lines 153-366),   *)
(*   SpecMask   the randomized buffer of Geomasking.py (lines 253-263),     *)
(*   SpecDP     the private aggregates of DifferentialPrivacy.py.           *)
(* A DataFrame is a sequence of rows; a row is a record holding its index  *)
(* label and its columns.                                                  *)
(***************************************************************************)
EXTENDS Integers, Sequences, FiniteSets, TLC

VARIABLES
    pc,                \* the cell that runs next
    err,               \* the exception the script stopped with, or "none"
    trip_origins,      \* the caller's dataset (lines 39, 64)
    trip_origins_geo,  \* the GeoDataFrame (lines 106-108, 176, 308)
    me,                \* Plate of the target record (line 98)
    k,                 \* the Python variable k (lines 80, 195, 348)
    sorted,            \* lines 186, 310, 351
    trip_origins_k5,   \* lines 196, 312
    hull_polygon,      \* lines 229, 335: the vertex set of the hull
    bbox_polygon,      \* line 255: the envelope
    focal,             \* line 271: the focal row
    row_iter,          \* rows that sorted.iterrows() has handed out (line 356)
    i,                 \* loop variable of the walk (line 356)
    counter,           \* line 353
    trip_origins_k5f,  \* line 366
    categories,        \* the categories of the Age_Group column (line 64)
    observed,          \* the installed pandas' default for groupby(observed=)
    to_count,          \* line 83
    violating,         \* line 86: the filtered frame the cell shows
    buffer,            \* Geomasking.py line 118: the buffer radius, in metres
    row_geometry,      \* Geomasking.py line 254: row.geometry, projected
    randgeom,          \* Geomasking.py line 257: the random point
    randgpd,           \* Geomasking.py lines 260-263: the buffer's ring
    Distances,         \* DifferentialPrivacy.py line 43: trip_origins.Distance
    called,            \* the private aggregate that was called
    entries,           \* the list it handed to quick_result
    returned,          \* the value it returned
    noise              \* the values the Laplace mechanism drew in the call

vars == <<pc, err, trip_origins, trip_origins_geo, me, k, sorted,
          trip_origins_k5, hull_polygon, bbox_polygon, focal, row_iter, i, counter,
          trip_origins_k5f, categories, observed, to_count, violating,
          buffer, row_geometry, randgeom, randgpd, Distances, called, entries,
          returned, noise>>

geoVars   == <<trip_origins_geo, me, sorted, trip_origins_k5, hull_polygon,
               bbox_polygon, focal>>
walkVars  == <<row_iter, i, counter, trip_origins_k5f>>
groupVars == <<trip_origins, categories, observed, to_count, violating>>
maskVars  == <<buffer, row_geometry, randgeom, randgpd>>
dpVars    == <<Distances, called, entries, returned, noise>>

\* the other notebooks' globals while the k-anonymity notebook runs
OtherNotebooksIdle ==
    /\ buffer = 500
    /\ row_geometry = << >>
    /\ randgeom = << >>
    /\ randgpd = << >>
    /\ Distances = << >>
    /\ called = "none"
    /\ entries = << >>
    /\ returned = 0
    /\ noise = << >>

----------------------------------------------------------------------------
(* Bounds of the model *)

MaxN == 6        \* largest number of candidate records in Spec
MaxRanked == 4   \* largest number of candidate records in SpecRank
MaxX == 2        \* longitudes are 0..MaxX
MaxY == 0        \* latitudes are 0..MaxY
MaxK == 5        \* k is drawn from 1..MaxK
MaxSame == 4     \* at most MaxSame records share one location
MaxLen == 5      \* longest ranked frame the walk is run on
MaxDist == 4     \* ranked distances are 0, 10, ..., 10 * MaxDist
MaxRows == 3     \* largest dataset that is binned and grouped
MaxAge == 4      \* ages are 0..MaxAge

(* Literals of the notebook *)

FocalIndex == 3  \* line 271: iloc[[3]]
FocalK == 5      \* line 312: head(5)
NumBins == 4     \* line 64: bins=4

----------------------------------------------------------------------------
(* Helpers on sequences and sets *)

Range(s) == {s[j] : j \in DOMAIN s}

MinOf(S) == CHOOSE a \in S : \A b \in S : a <= b
MaxOf(S) == CHOOSE a \in S : \A b \in S : a >= b

----------------------------------------------------------------------------
(* Geometry: shapely points, distance, convex hull and envelope *)

Points == [x : 0..MaxX, y : 0..MaxY]

Geom(row) == [x |-> row.x, y |-> row.y]

\* line 171 / 305: geometry.distance().  The model keeps the squared planar
\* distance: the notebook only ever compares distances (line 168-169), and
\* squaring preserves their order and their ties.
Distance(p, q) == (p.x - q.x) * (p.x - q.x) + (p.y - q.y) * (p.y - q.y)

Cross(o, a, b) == (a.x - o.x) * (b.y - o.y) - (a.y - o.y) * (b.x - o.x)

OnSegment(a, b, p) ==
    /\ Cross(a, b, p) = 0
    /\ (a.x <= p.x /\ p.x <= b.x) \/ (b.x <= p.x /\ p.x <= a.x)
    /\ (a.y <= p.y /\ p.y <= b.y) \/ (b.y <= p.y /\ p.y <= a.y)

InTriangle(a, b, c, p) ==
    LET d1 == Cross(a, b, p)
        d2 == Cross(b, c, p)
        d3 == Cross(c, a, p)
    IN  /\ Cross(a, b, c) # 0
        /\ ~ ( (d1 < 0 \/ d2 < 0 \/ d3 < 0) /\ (d1 > 0 \/ d2 > 0 \/ d3 > 0) )

\* p lies within or on the boundary of the convex hull of the point set P
\* (Caratheodory: p is in the hull iff it is in a segment or triangle of P).
Covers(P, p) ==
    \/ p \in P
    \/ \E a, b \in P : OnSegment(a, b, p)
    \/ \E a, b, c \in P : InTriangle(a, b, c, p)

\* lines 229, 335, 389: geometry.unary_union
unary_union(frame) == {Geom(frame[j]) : j \in DOMAIN frame}

\* lines 229, 335, 389: .convex_hull, as the set of the hull's vertices
convex_hull(P) == {v \in P : ~ Covers(P \ {v}, v)}

\* line 255: .envelope
envelope(P) ==
    [minx |-> MinOf({p.x : p \in P}), miny |-> MinOf({p.y : p \in P}),
     maxx |-> MaxOf({p.x : p \in P}), maxy |-> MaxOf({p.y : p \in P})]

InBox(b, p) ==
    /\ b.minx <= p.x /\ p.x <= b.maxx
    /\ b.miny <= p.y /\ p.y <= b.maxy

----------------------------------------------------------------------------
(* pandas operations *)

\* sort_values(by=[col]) (lines 186, 310).  With a single sort column pandas
\* sorts with kind='quicksort', which is not a stable sort: the result is
\* ascending by the column, and the order of rows with equal values is
\* whatever the installed numpy produces.  Every ascending order is an outcome.
RECURSIVE Orderings(_, _, _)
Orderings(frame, col, S) ==
    IF S = {} THEN {<< >>}
    ELSE LET m == MinOf({frame[j][col] : j \in S})
         IN  UNION { { <<frame[j]>> \o t : t \in Orderings(frame, col, S \ {j}) }
                     : j \in {j2 \in S : frame[j2][col] = m} }

sort_values(frame, col) == Orderings(frame, col, DOMAIN frame)

\* head(n) that stops one row early
head_short(frame, n) == SubSeq(frame, 1, IF n <= Len(frame) THEN n - 1 ELSE Len(frame) - 1)

\* head(n) (lines 196, 312): the first n rows, or all rows when there are fewer
head(frame, n) == SubSeq(frame, 1, IF n <= Len(frame) THEN n ELSE Len(frame))

\* frame[col] = values (lines 176, 308): add or replace a column
SetColumn(frame, col, values) ==
    [j \in DOMAIN frame |-> (col :> values[j]) @@ frame[j]]

\* line 153: the rows of the frame whose Plate is me
me_row == SelectSeq(trip_origins_geo, LAMBDA r : r.Plate = me)

\* lines 163-173 / 302-306: the distance of every row from the reference row
distances(ref) ==
    [j \in DOMAIN trip_origins_geo |-> Distance(Geom(ref), Geom(trip_origins_geo[j]))]

----------------------------------------------------------------------------
(* Spec: the spatial cloaking cells *)

\* The frame after line 108: n rows listed in ascending (x, y) order.  The
\* outcomes of sort_values do not depend on the order of the input rows, so
\* listing them in coordinate order leaves out no behaviour of the cells.
Before(p, q) == p.x < q.x \/ (p.x = q.x /\ p.y <= q.y)

GeoFrame(n, pts) ==
    [j \in 1..n |-> [index |-> j - 1, Plate |-> j, x |-> pts[j].x, y |-> pts[j].y]]

Locations(n) ==
    {f \in [1..n -> Points] :
        /\ \A a, b \in 1..n : a < b => Before(f[a], f[b])
        /\ \A p \in Points : Cardinality({a \in 1..n : f[a] = p}) <= MaxSame}

\* the state before the distance cell, for frames of at most `most` rows
InitGeo(most) ==
    /\ pc = "distances"
    /\ err = "none"
    /\ \E n \in 1..most : \E pts \in Locations(n) :
          trip_origins_geo = GeoFrame(n, pts)
    /\ me \in 1..Len(trip_origins_geo)
    /\ k = 5
    /\ sorted = << >>
    /\ trip_origins_k5 = << >>
    /\ hull_polygon = {}
    /\ bbox_polygon = {}
    /\ focal = << >>
    /\ row_iter = 0
    /\ i = 0
    /\ counter = 0
    /\ trip_origins_k5f = << >>
    /\ trip_origins = << >>
    /\ categories = << >>
    /\ observed = FALSE
    /\ to_count = << >>
    /\ violating = << >>
    /\ OtherNotebooksIdle

\* lines 162-176
CellDistances ==
    /\ pc = "distances"
    /\ trip_origins_geo' = SetColumn(trip_origins_geo, "dist", distances(me_row[1]))
    /\ pc' = "sort"
    /\ UNCHANGED <<err, me, k, sorted, trip_origins_k5, hull_polygon,
                   bbox_polygon, focal, walkVars, groupVars, maskVars, dpVars>>

\* line 186
CellSort ==
    /\ pc = "sort"
    /\ sorted' \in sort_values(trip_origins_geo, "dist")
    /\ pc' = "select"
    /\ UNCHANGED <<err, trip_origins_geo, me, k, trip_origins_k5, hull_polygon,
                   bbox_polygon, focal, walkVars, groupVars, maskVars, dpVars>>

\* lines 195-196; the k of line 195 is the caller's parameter
CellSelectK ==
    /\ pc = "select"
    /\ \E kk \in 1..MaxK :
          /\ k' = kk
          /\ trip_origins_k5' = head(sorted, kk)
    /\ pc' = "hull"
    /\ UNCHANGED <<err, trip_origins_geo, me, sorted, hull_polygon,
                   bbox_polygon, focal, walkVars, groupVars, maskVars, dpVars>>

\* line 229
CellHull ==
    /\ pc = "hull"
    /\ hull_polygon' = convex_hull(unary_union(trip_origins_k5))
    /\ pc' = "bbox"
    /\ UNCHANGED <<err, trip_origins_geo, me, k, sorted, trip_origins_k5,
                   bbox_polygon, focal, walkVars, groupVars, maskVars, dpVars>>

\* line 255
CellBBox ==
    /\ pc = "bbox"
    /\ bbox_polygon' = envelope(unary_union(trip_origins_k5))
    /\ pc' = "focal"
    /\ UNCHANGED <<err, trip_origins_geo, me, k, sorted, trip_origins_k5,
                   hull_polygon, focal, walkVars, groupVars, maskVars, dpVars>>

\* iloc that counts positions from 1
iloc_from_one(frame, pos) == frame[pos]

\* line 271: iloc[[3]] is the row at position 3, counted from 0
iloc(frame, pos) == frame[pos + 1]

CellFocal ==
    /\ pc = "focal"
    /\ Len(trip_origins_k5) > FocalIndex
    /\ focal' = iloc(trip_origins_k5, FocalIndex)
    /\ pc' = "refocus"
    /\ UNCHANGED <<err, trip_origins_geo, me, k, sorted, trip_origins_k5,
                   hull_polygon, bbox_polygon, walkVars, groupVars, maskVars, dpVars>>

\* line 271 on fewer than 4 rows: positional indexer out of bounds
CellFocalError ==
    /\ pc = "focal"
    /\ Len(trip_origins_k5) <= FocalIndex
    /\ err' = "IndexError"
    /\ pc' = "stopped"
    /\ UNCHANGED <<geoVars, k, walkVars, groupVars, maskVars, dpVars>>

\* lines 302-335
CellRefocus ==
    /\ pc = "refocus"
    /\ LET geo == SetColumn(trip_origins_geo, "dist_focal", distances(focal))
       IN  /\ trip_origins_geo' = geo
           /\ \E s \in sort_values(geo, "dist_focal") :
                 /\ sorted' = s
                 /\ trip_origins_k5' = head(s, FocalK)
                 /\ hull_polygon' = convex_hull(unary_union(head(s, FocalK)))
    /\ pc' = "walk"
    /\ UNCHANGED <<err, me, k, bbox_polygon, focal, walkVars, groupVars, maskVars, dpVars>>

Init == InitGeo(MaxN)

Next ==
    \/ CellDistances
    \/ CellSort
    \/ CellSelectK
    \/ CellHull
    \/ CellBBox
    \/ CellFocal
    \/ CellFocalError
    \/ CellRefocus

Spec == Init /\ [][Next]_vars

InitRank == InitGeo(MaxRanked)

NextRank ==
    \/ CellDistances
    \/ CellSort
    \/ CellSelectK
    \/ CellHull
    \/ CellBBox
    \/ CellFocal
    \/ CellFocalError

SpecRank == InitRank /\ [][NextRank]_vars

----------------------------------------------------------------------------
(* Properties of the spatial cloaking cells *)

\* the true location of the target record
target == Geom(me_row[1])

Plates(frame) == {frame[j].Plate : j \in DOMAIN frame}

\* the cells between the plain select-k (line 196) and the re-ranking (line 310)
AfterSelect == pc \in {"hull", "bbox", "focal", "refocus", "stopped"}

\* the cells that run once a hull (line 229) and a box (line 255) are emitted
HullEmitted == pc \in {"bbox", "focal", "refocus", "stopped", "walk"}
BBoxEmitted == pc \in {"focal", "refocus", "stopped", "walk"}

\* the candidate rows that lie at the target's location, the target included
AtTarget == {j \in DOMAIN trip_origins_geo : Geom(trip_origins_geo[j]) = target}

\* C1: the true target point lies within or on the boundary of every emitted
\* geometry: the convex hull (lines 229 and 335, the latter after focal
\* re-centering) and the bounding box (line 255) of the anonymity set.
C1_TargetInEmittedGeometry ==
    /\ HullEmitted => Covers(hull_polygon, target)
    /\ BBoxEmitted => InBox(bbox_polygon, target)

\* C2: when k exceeds the number of candidates, select-k fails with
\* InsufficientCandidates and never hands on a set of fewer than k records;
\* this for the select of line 196 and for the head(5) of line 312.
C2_InsufficientCandidatesRaised ==
    /\ (AfterSelect /\ k > Len(trip_origins_geo))
          => (err = "InsufficientCandidates" /\ trip_origins_k5 = << >>)
    /\ (pc = "walk" /\ FocalK > Len(trip_origins_geo))
          => (err = "InsufficientCandidates" /\ trip_origins_k5 = << >>)

\* the set holds exactly k rows and no row left out is strictly closer to the
\* target than a row of the set
FirstKByDistance ==
    /\ Len(trip_origins_k5) = k
    /\ \A r \in Range(sorted) \ Range(trip_origins_k5) :
          \A s \in Range(trip_origins_k5) : ~ (r.dist < s.dist)

RankedBy == IF pc = "walk" THEN "dist_focal" ELSE "dist"

\* C7: the ranking (line 186) and the re-ranking (line 310) are ascending by
\* distance and rows at equal distance keep their input order.
C7_TiesKeepInputOrder ==
    (AfterSelect \/ pc \in {"select", "walk"})
       => \A a, b \in DOMAIN sorted :
             a < b => \/ sorted[a][RankedBy] < sorted[b][RankedBy]
                      \/ /\ sorted[a][RankedBy] = sorted[b][RankedBy]
                         /\ sorted[a].index < sorted[b].index

\* C8 as stated: the focal point's location differs from the target's location
\* whenever the focal row is not the target row.
C8_FocalDiffersFromTarget ==
    (pc \in {"refocus", "walk"} /\ focal.Plate # me) => Geom(focal) # target

\* C8 amended: the focal point's location differs from the target's location
\* whenever the focal row is not the target row and at most 3 candidates, the
\* target included, lie at the target's location.
C8_FocalDiffersUnlessCrowded ==
    (pc \in {"refocus", "walk"} /\ focal.Plate # me
        /\ Cardinality(AtTarget) <= FocalIndex)
       => Geom(focal) # target

C8_Witness ==
    /\ pc = "refocus"
    /\ focal.Plate # me
    /\ Cardinality(AtTarget) = FocalIndex
    /\ focal.dist > 0

----------------------------------------------------------------------------
(* SpecWalk: the attribute-conditioned walk, lines 348-366, run on a ranked  *)
(* frame.  The walk reads the Gender column and the index labels only.      *)

\* reset_index that leaves the labels as they are
reset_index_keep(frame) == frame

\* line 351: reset_index(drop=True) relabels the rows 0, 1, ... in their order
reset_index(frame) == [j \in DOMAIN frame |-> [frame[j] EXCEPT !.index = j - 1]]

\* a slice that leaves out its last position
slice_short(frame, from, to) ==
    SubSeq(frame, from + 1, IF to - 1 <= Len(frame) THEN to - 1 ELSE Len(frame))

\* line 366: the positional slice frame[from:to]
slice(frame, from, to) ==
    SubSeq(frame, from + 1, IF to <= Len(frame) THEN to ELSE Len(frame))

\* line 359
IsFemale(row) == row.Gender = "Female"

\* The frames line 310 can leave in sorted: rows in ascending order of
\* dist_focal, the focal row first at distance 0, carrying the labels of the
\* unsorted frame: the unsorted frame listed the rows in this order (labels
\* 0, 1, ...) or in the opposite order (labels n - 1, n - 2, ...).
RankedFrame(n, g, d, up) ==
    [j \in 1..n |-> [index |-> IF up THEN j - 1 ELSE n - j,
                      Plate |-> IF up THEN j ELSE n - j + 1,
                      Gender |-> g[j], dist_focal |-> 10 * d[j]]]

RankedDistances(n) ==
    {f \in [1..n -> 0..MaxDist] : f[1] = 0 /\ \A a \in 1..(n - 1) : f[a] <= f[a + 1]}

InitWalk ==
    /\ pc = "walk"
    /\ err = "none"
    /\ \E n \in 1..MaxLen :
          \E g \in [1..n -> {"Female", "Male"}], d \in RankedDistances(n), up \in BOOLEAN :
             sorted = RankedFrame(n, g, d, up)
    /\ k = 5
    /\ trip_origins_geo = << >>
    /\ me = 1
    /\ trip_origins_k5 = << >>
    /\ hull_polygon = {}
    /\ bbox_polygon = {}
    /\ focal = << >>
    /\ row_iter = 0
    /\ i = 0
    /\ counter = 0
    /\ trip_origins_k5f = << >>
    /\ trip_origins = << >>
    /\ categories = << >>
    /\ observed = FALSE
    /\ to_count = << >>
    /\ violating = << >>
    /\ OtherNotebooksIdle

\* lines 348-353; the k of line 348 is the caller's parameter
WalkStart ==
    /\ pc = "walk"
    /\ \E kk \in 1..MaxK : k' = kk
    /\ sorted' = reset_index(sorted)
    /\ counter' = 0
    /\ row_iter' = 0
    /\ pc' = "loop"
    /\ UNCHANGED <<err, trip_origins_geo, me, trip_origins_k5, hull_polygon,
                   bbox_polygon, focal, i, trip_origins_k5f, groupVars, maskVars, dpVars>>

\* lines 356-364: one iteration of the loop
WalkIterate ==
    /\ pc = "loop"
    /\ row_iter < Len(sorted)
    /\ LET row == sorted[row_iter + 1]
           c   == IF IsFemale(row) THEN counter + 1 ELSE counter
       IN  /\ i' = row.index
           /\ counter' = c
           /\ pc' = IF c = k THEN "slice" ELSE "loop"
    /\ row_iter' = row_iter + 1
    /\ UNCHANGED <<err, geoVars, k, trip_origins_k5f, groupVars, maskVars, dpVars>>

\* line 356: the rows are used up and the loop ends without a break
WalkExhausted ==
    /\ pc = "loop"
    /\ row_iter = Len(sorted)
    /\ pc' = "slice"
    /\ UNCHANGED <<err, geoVars, k, walkVars, groupVars, maskVars, dpVars>>

\* line 366
WalkSlice ==
    /\ pc = "slice"
    /\ trip_origins_k5f' = slice(sorted, 0, i + 1)
    /\ pc' = "hull_k5f"
    /\ UNCHANGED <<err, geoVars, k, row_iter, i, counter, groupVars, maskVars, dpVars>>

NextWalk ==
    \/ WalkStart
    \/ WalkIterate
    \/ WalkExhausted
    \/ WalkSlice

SpecWalk == InitWalk /\ [][NextWalk]_vars

----------------------------------------------------------------------------
(* Properties of the walk *)

Matches(frame) == Cardinality({j \in DOMAIN frame : IsFemale(frame[j])})

Dists(frame) == [j \in DOMAIN frame |-> frame[j].dist_focal]

\* C3: when the ranked frame holds at least k matching rows, the set is the
\* shortest prefix of the ranked frame with k matching rows: it starts at
\* position 0, ends on a matching row, holds exactly k matches, and covers the
\* plain first-k set of the same frame.
C3_ShortestPrefixWithKMatches ==
    (pc = "hull_k5f" /\ Matches(sorted) >= k)
       => LET n == Len(trip_origins_k5f)
          IN  /\ n >= 1 /\ n <= Len(sorted)
              /\ trip_origins_k5f = SubSeq(sorted, 1, n)
              /\ IsFemale(trip_origins_k5f[n])
              /\ Matches(trip_origins_k5f) = k
              /\ n >= k
              /\ head(sorted, k) = SubSeq(trip_origins_k5f, 1, k)
              /\ \A m \in 0..(n - 1) : Matches(SubSeq(sorted, 1, m)) < k

C3_Witness ==
    /\ pc = "hull_k5f"
    /\ Matches(sorted) > k
    /\ k >= 2
    /\ Len(trip_origins_k5f) > k
    /\ Len(trip_origins_k5f) < Len(sorted)

\* C4: when fewer than k rows of the whole ranked frame match, the walk fails
\* with InsufficientCandidates and returns no set.
C4_TooFewMatchesRaises ==
    (pc = "hull_k5f" /\ Matches(sorted) < k)
       => (err = "InsufficientCandidates" /\ trip_origins_k5f = << >>)

\* the scenario: 5 rows ranked at distances 0, 10, 20, 30, 40, of which the
\* rows at 10, 30 and 40 match, walked with k = 3
Scenario ==
    /\ pc = "hull_k5f"
    /\ k = 3
    /\ Dists(sorted) = <<0, 10, 20, 30, 40>>
    /\ {j \in DOMAIN sorted : IsFemale(sorted[j])} = {2, 4, 5}

\* C5 as stated: in the scenario the walk returns the 4 rows at distances
\* 0, 10, 30 and 40.
C5_ScenarioFourRows ==
    Scenario => Dists(trip_origins_k5f) = <<0, 10, 30, 40>>

\* C5 amended: in the scenario the walk returns the 5 rows at distances
\* 0, 10, 20, 30 and 40, the non-matching row at distance 20 included.
C5_ScenarioFiveRows ==
    Scenario => Dists(trip_origins_k5f) = <<0, 10, 20, 30, 40>>

C5_Witness ==
    /\ Scenario
    /\ Len(trip_origins_k5f) = 5
    /\ ~ IsFemale(trip_origins_k5f[3])

----------------------------------------------------------------------------
(* SpecGroup: binning (line 64) and the equivalence classes with their      *)
(* k filter (lines 80-86)                                                   *)

\* Bin edges are fractions; the model keeps every edge and every value
\* multiplied by Scale, which makes them integers (an edge is the minimum plus
\* a multiple of range / NumBins, moved by 0.001 * range or 0.001 * |value|).
Scale == 1000 * NumBins

Abs(a) == IF a < 0 THEN 0 - a ELSE a

\* the edges without the 0.1 % extension of the leftmost edge
cut_edges_plain(values) ==
    LET mn == MinOf(Range(values))
        mx == MaxOf(Range(values))
    IN  [j \in 1..(NumBins + 1) |-> Scale * mn + 1000 * (j - 1) * (mx - mn)]

\* line 64, pd.cut(values, bins=NumBins): the NumBins + 1 edges.  Equal-width
\* bins over [min, max]; when min = max the range is first widened by 0.1 % of
\* |min| on both sides (by 0.001 when min = 0), otherwise the leftmost edge is
\* moved down by 0.1 % of the range so that the minimum falls into the first
\* bin.
cut_edges(values) ==
    LET mn == MinOf(Range(values))
        mx == MaxOf(Range(values))
        w  == IF mn # 0 THEN NumBins * Abs(mn) ELSE NumBins
        w2 == IF mx # 0 THEN NumBins * Abs(mx) ELSE NumBins
    IN  IF mn = mx
        THEN [j \in 1..(NumBins + 1) |->
                 (Scale * mn - w) + (j - 1) * ((w + w2) \div NumBins)]
        ELSE [j \in 1..(NumBins + 1) |->
                 IF j = 1 THEN Scale * mn - NumBins * (mx - mn)
                 ELSE Scale * mn + 1000 * (j - 1) * (mx - mn)]

\* the intervals (lo, hi] between consecutive edges: the categories of the
\* binned column
Intervals(edges) == [b \in 1..NumBins |-> [lo |-> edges[b], hi |-> edges[b + 1]]]

\* v lies in the right-closed interval
Contains(interval, v) == interval.lo < v /\ v <= interval.hi

\* pd.cut assigns with searchsorted(edges, v, side='left'): the number of
\* edges below v, less one, is the code of the bin (its position in the
\* categories, counted from 0); a value outside all bins gets the code -1 (NaN)
searchsorted(edges, v) == Cardinality({j \in DOMAIN edges : edges[j] < v})

cut_value(edges, v) ==
    LET id == searchsorted(edges, Scale * v)
    IN  IF id = 0 \/ id = NumBins + 1 THEN -1 ELSE id - 1

\* rank of a Gender value in the sort order of its strings
GenderRank(g) == IF g = "Female" THEN 0 ELSE 1

\* groupby sorts the group keys: by the first key, then by Gender
KeyBefore(a, b) ==
    \/ a.first < b.first
    \/ a.first = b.first /\ GenderRank(a.Gender) <= GenderRank(b.Gender)

RECURSIVE SortKeys(_)
SortKeys(S) ==
    IF S = {} THEN << >>
    ELSE LET m == CHOOSE a \in S : \A b \in S : KeyBefore(a, b)
         IN  <<m>> \o SortKeys(S \ {m})

\* groupby(keys) of lines 55, 72, 83: the group keys of the result.  Grouping
\* by a plain column yields the key tuples that occur.  Grouping by the
\* categorical Age_Group with observed=False yields every category combined
\* with every occurring Gender; with observed=True only the tuples that occur.
\* Rows whose Age_Group is NaN (code -1) belong to no group.
GroupKeys(frame, col, obs) ==
    LET binned == {j \in DOMAIN frame : frame[j][col] # -1}
        occurring == {[first |-> frame[j][col], Gender |-> frame[j].Gender] : j \in binned}
    IN  IF col = "Age_Group" /\ ~ obs
        THEN {[first |-> b, Gender |-> frame[j].Gender] :
                 b \in 0..(Len(categories) - 1), j \in DOMAIN frame}
        ELSE occurring

\* groupby(keys).size().reset_index(name='Count')
size_frame(frame, col, obs) ==
    LET keys == SortKeys(GroupKeys(frame, col, obs))
    IN  [g \in DOMAIN keys |->
            [first |-> keys[g].first, Gender |-> keys[g].Gender,
             Count |-> Cardinality({j \in DOMAIN frame :
                                      /\ frame[j][col] = keys[g].first
                                      /\ frame[j].Gender = keys[g].Gender})]]

\* line 86: to_count[to_count['Count'] < k]
below(frame, kk) == SelectSeq(frame, LAMBDA r : r.Count < kk)

\* The datasets of line 39, their rows listed in ascending order of Age:
\* neither pd.cut nor groupby().size() depends on the order of the rows.
Dataset(n, a, g) == [j \in 1..n |-> [index |-> j - 1, Age |-> a[j], Gender |-> g[j]]]

AgeColumns(n) == {f \in [1..n -> 0..MaxAge] : \A b \in 1..(n - 1) : f[b] <= f[b + 1]}

InitGroup ==
    /\ pc = "cut"
    /\ err = "none"
    /\ \E n \in 1..MaxRows :
          \E a \in AgeColumns(n), g \in [1..n -> {"Female", "Male"}] :
             trip_origins = Dataset(n, a, g)
    /\ observed \in BOOLEAN
    /\ categories = << >>
    /\ to_count = << >>
    /\ violating = << >>
    /\ k = 5
    /\ trip_origins_geo = << >>
    /\ me = 1
    /\ sorted = << >>
    /\ trip_origins_k5 = << >>
    /\ hull_polygon = {}
    /\ bbox_polygon = {}
    /\ focal = << >>
    /\ row_iter = 0
    /\ i = 0
    /\ counter = 0
    /\ trip_origins_k5f = << >>
    /\ OtherNotebooksIdle

\* line 64
CellCut ==
    /\ pc = "cut"
    /\ LET edges == cut_edges([j \in DOMAIN trip_origins |-> trip_origins[j].Age])
       IN  /\ categories' = Intervals(edges)
           /\ trip_origins' = SetColumn(trip_origins, "Age_Group",
                 [j \in DOMAIN trip_origins |-> cut_value(edges, trip_origins[j].Age)])
    /\ pc' = "count"
    /\ UNCHANGED <<err, geoVars, k, walkVars, observed, to_count, violating,
                   maskVars, dpVars>>

\* lines 80-86; k and the first grouping column are the caller's parameters
\* (line 55 groups by Age, lines 72 and 83 by Age_Group)
CellCount ==
    /\ pc = "count"
    /\ \E kk \in 1..MaxK, col \in {"Age", "Age_Group"} :
          /\ k' = kk
          /\ to_count' = size_frame(trip_origins, col, observed)
          /\ violating' = below(size_frame(trip_origins, col, observed), kk)
    /\ pc' = "shown"
    /\ UNCHANGED <<err, geoVars, walkVars, trip_origins, categories, observed,
                   maskVars, dpVars>>

NextGroup ==
    \/ CellCut
    \/ CellCount

SpecGroup == InitGroup /\ [][NextGroup]_vars

----------------------------------------------------------------------------
(* Properties of binning and grouping *)

\* C9: computing the equivalence classes and filtering them for count < 1
\* returns nothing: no class is reported with count 0.
C9_NoClassBelowOne ==
    (pc = "shown" /\ k = 1) => violating = << >>

Ages == {trip_origins[j].Age : j \in DOMAIN trip_origins}

\* the values between the observed minimum and maximum, in steps of
\* 1 / NumBins of a unit: the column's values and every interior bin edge that
\* is such a fraction are among them
ValuesInRange == {1000 * t : t \in (NumBins * MinOf(Ages))..(NumBins * MaxOf(Ages))}

\* the codes of the bins that hold v
BinsHolding(v) == {b \in 0..(Len(categories) - 1) : Contains(categories[b + 1], v)}

\* C10: after binning, every value between the observed minimum and maximum,
\* the minimum, the maximum and the interior bin edges included, lies in
\* exactly one bin, and every row is assigned the bin that holds its value.
C10_ExactlyOneBin ==
    pc \in {"count", "shown"}
       => /\ Len(categories) = NumBins
          /\ \A v \in ValuesInRange : Cardinality(BinsHolding(v)) = 1
          /\ \A j \in DOMAIN trip_origins :
                BinsHolding(Scale * trip_origins[j].Age) = {trip_origins[j].Age_Group}

C10_Witness ==
    /\ pc = "count"
    /\ MinOf(Ages) < MaxOf(Ages)
    /\ \E j \in DOMAIN trip_origins, b \in 0..(NumBins - 2) :
          /\ Scale * trip_origins[j].Age = categories[b + 1].hi
          /\ trip_origins[j].Age_Group = b

----------------------------------------------------------------------------
(* The caller's dataset *)

\* C11: no operation of the k-anonymity pipeline changes the caller's input
\* dataset: the frame read at line 39 and the GeoDataFrame built from it keep
\* their columns, their rows and their row order in every step; every result
\* is a derived copy.
C11_InputNeverChanged ==
    [][trip_origins' = trip_origins /\ trip_origins_geo' = trip_origins_geo]_vars

----------------------------------------------------------------------------
(* The geomasking notebook (src/code/Geomasking.py): the randomized point  *)
(* and the randomized buffer of one row of trip_origins_geo_m.             *)
(* Coordinates are whole numbers of 1/Grid metres.  random.random() is a   *)
(* fraction u / RandSteps with u in 0..RandSteps-1; the model draws u from *)
(* RandSamples values spread over that range, and the largest one.  An     *)
(* angle is a whole                                                        *)
(* number of 1/(Turn * RandSteps) turns, so that random.random()*2*math.pi *)
(* is exact; math.cos and math.sin read a table at Turn steps a turn.      *)

RandSteps == 1024   \* the random source returns multiples of 1/RandSteps
RandSamples == 64   \* how many of them the model draws
Grid == 40          \* coordinate steps per metre
MaxBuffer == 2      \* buffer radii are 250, ..., 250 * MaxBuffer metres
MaxOrigin == 1      \* original points are 0..MaxOrigin steps along a line

\* Geomasking.py line 263: buffer() with geopandas' default resolution, the
\* number of segments of a quarter circle
QuadSegs == 16

\* table steps per turn: the ring's vertices and the middles of its sides
Turn == 8 * QuadSegs

CosScale == 10000

\* cos(j * pi / 64) * CosScale for j = 0..32, cut to whole numbers
CosTable ==
    << 10000, 9987, 9951, 9891, 9807, 9700, 9569, 9415, 9238, 9039, 8819,
       8577, 8314, 8032, 7730, 7409, 7071, 6715, 6343, 5956, 5555, 5141,
       4713, 4275, 3826, 3368, 2902, 2429, 1950, 1467, 980, 490, 0 >>

CosAt(step) ==
    LET u == step % Turn
        q == Turn \div 4
    IN  IF u <= q THEN CosTable[u + 1]
        ELSE IF u <= 2 * q THEN - CosTable[2 * q - u + 1]
        ELSE IF u <= 3 * q THEN - CosTable[u - 2 * q + 1]
        ELSE CosTable[4 * q - u + 1]

SinAt(step) == CosAt(step + 3 * (Turn \div 4))

\* math.cos, math.sin of an angle: the angle is cut to the table's step
cos(theta) == CosAt(theta \div RandSteps)
sin(theta) == SinAt(theta \div RandSteps)

\* math.degrees: times 180 / pi = 57.30
degrees(angle) == (angle * 5730) \div 100

\* r * c for a table value c, cut towards zero
Scaled(r, c) == IF c >= 0 THEN (r * c) \div CosScale ELSE - ((r * (- c)) \div CosScale)

Random ==
    {(RandSteps * j) \div RandSamples : j \in 0..(RandSamples - 1)} \cup {RandSteps - 1}

\* randPoint with both offsets taken along the cosine
randPoint_cos_twice(pt, buff, u1, u2) ==
    LET r == (buff * Grid * u1) \div RandSteps
        theta == degrees(Turn * u2)
    IN  [x |-> pt.x + Scaled(r, cos(theta)), y |-> pt.y + Scaled(r, cos(theta))]

\* Geomasking.py lines 161-174; u1 and u2 are the two values random.random()
\* returns
randPoint(pt, buff, u1, u2) ==
    LET r == (buff * Grid * u1) \div RandSteps
        theta == degrees(Turn * u2)
    IN  [x |-> pt.x + Scaled(r, cos(theta)), y |-> pt.y + Scaled(r, sin(theta))]

\* Geomasking.py line 263: geometry.buffer(buffer) of a point is the ring of
\* 4 * QuadSegs vertices on the circle; a radius of 0 gives an empty polygon
Buffer(centre, radius) ==
    IF radius = 0 THEN << >>
    ELSE [j \in 1..(4 * QuadSegs) |->
            [x |-> centre.x + Scaled(radius * Grid, CosAt(2 * (j - 1))),
             y |-> centre.y + Scaled(radius * Grid, SinAt(2 * (j - 1)))]]

\* the polygon of a ring (counter-clockwise) holds p, its boundary included
RingCovers(ring, p) ==
    /\ ring # << >>
    /\ \A j \in DOMAIN ring : Cross(ring[j], ring[(j % Len(ring)) + 1], p) >= 0

BufferRadii == {250 * m : m \in 1..MaxBuffer}

Origins == {[x |-> 100 * Grid * j, y |-> 75 * Grid * j] : j \in 0..MaxOrigin}

\* the k-anonymity notebook's globals while another notebook runs
KAnonymityIdle ==
    /\ err = "none"
    /\ trip_origins = << >>
    /\ trip_origins_geo = << >>
    /\ me = 1
    /\ k = 5
    /\ sorted = << >>
    /\ trip_origins_k5 = << >>
    /\ hull_polygon = {}
    /\ bbox_polygon = {}
    /\ focal = << >>
    /\ row_iter = 0
    /\ i = 0
    /\ counter = 0
    /\ trip_origins_k5f = << >>
    /\ categories = << >>
    /\ observed = FALSE
    /\ to_count = << >>
    /\ violating = << >>

\* one pass of the loop of lines 253-285, for any row and any buffer radius
InitMask ==
    /\ pc = "randPoint"
    /\ KAnonymityIdle
    /\ buffer \in BufferRadii
    /\ row_geometry \in Origins
    /\ randgeom = << >>
    /\ randgpd = << >>
    /\ Distances = << >>
    /\ called = "none"
    /\ entries = << >>
    /\ returned = 0
    /\ noise = << >>

\* line 257
MaskRandPoint ==
    /\ pc = "randPoint"
    /\ \E u1, u2 \in Random : randgeom' = randPoint(row_geometry, buffer, u1, u2)
    /\ pc' = "buffer"
    /\ UNCHANGED <<err, geoVars, k, walkVars, groupVars, buffer, row_geometry,
                   randgpd, dpVars>>

\* lines 260-263
MaskBuffer ==
    /\ pc = "buffer"
    /\ randgpd' = Buffer(randgeom, buffer)
    /\ pc' = "mapped"
    /\ UNCHANGED <<err, geoVars, k, walkVars, groupVars, buffer, row_geometry,
                   randgeom, dpVars>>

NextMask ==
    \/ MaskRandPoint
    \/ MaskBuffer

SpecMask == InitMask /\ [][NextMask]_vars

\* C12: for every original point and every buffer radius, the randomized
\* buffer drawn around the point that randPoint returned contains the
\* original point.
C12_BufferHoldsOriginal ==
    pc = "mapped" => RingCovers(randgpd, row_geometry)

\* C13: for every point and radius, the point randPoint returns is at planar
\* distance at most the radius from the point it was given, whatever the
\* random source returns.
C13_RandPointWithinBuffer ==
    pc \in {"buffer", "mapped"} =>
        Distance(randgeom, row_geometry) <= (buffer * Grid) * (buffer * Grid)

\* a random point less than a metre inside the rim of the buffer distance
C13_Witness ==
    /\ pc = "buffer"
    /\ Distance(randgeom, row_geometry) > (buffer * Grid - Grid) * (buffer * Grid - Grid)

----------------------------------------------------------------------------
(* The differential privacy notebook (src/code/DifferentialPrivacy.py).    *)
(* The private aggregates are PyDP's Count, BoundedMean,                   *)
(* BoundedStandardDeviation and Max, called through quick_result.  A draw  *)
(* of the Laplace mechanism is a whole multiple of a noise step, between   *)
(* -MaxNoise and MaxNoise steps.  Values are whole metres (line 46).       *)

MaxTrips == 2          \* longest Distance column
MaxTripDistance == 2   \* trip distances are 0, 6000, ..., 6000 * MaxTripDistance
MaxNoise == 1          \* a noise draw is -MaxNoise..MaxNoise noise steps

\* lines 90, 144: the bounds given to BoundedMean and
\* BoundedStandardDeviation; line 159: those given to Max
LowerBound == 1
UpperBound == 10000
MaxLowerBound == 0

\* the not-a-number that the square root of a negative number is; no
\* comparison with it holds
NaN == 0 - 1

Sum(seq) ==
    LET Upto[n \in 0..Len(seq)] == IF n = 0 THEN 0 ELSE Upto[n - 1] + seq[n]
    IN  Upto[Len(seq)]

\* Clamp that knows no lower end
Clamp_upper_only(lo, hi, v) == IF v > hi THEN hi ELSE v

\* the library's Clamp(lower, upper, value)
Clamp(lo, hi, v) == IF v < lo THEN lo ELSE IF v > hi THEN hi ELSE v

\* std::sqrt, cut to a whole number
Sqrt(v) ==
    IF v < 0 THEN NaN
    ELSE CHOOSE r \in 0..UpperBound : r * r <= v /\ v < (r + 1) * (r + 1)

NoiseDraws == (0 - MaxNoise)..MaxNoise

\* the entries as the bounded algorithms take them in
Clamped(values, lo, hi) == [j \in DOMAIN values |-> Clamp(lo, hi, values[j])]

\* the count is noised and kept at 1 or more before it divides
NoisedCount(values, e) == IF Len(values) + e < 1 THEN 1 ELSE Len(values) + e

\* the noised variance of BoundedStandardDeviation, before it is clamped:
\* the noised mean of squares less the square of the noised mean
NoisedVariance(values, lo, hi, e) ==
    LET c == Clamped(values, lo, hi)
        n == NoisedCount(values, e[1])
        sum == Sum(c) + e[2] * ((hi - lo) \div 2)
        squares == Sum([j \in DOMAIN c |-> c[j] * c[j]]) + e[3] * (((hi - lo) * (hi - lo)) \div 4)
    IN  (squares \div n) - (sum \div n) * (sum \div n)

\* BoundedStandardDeviation(...).quick_result(values)
BoundedStandardDeviation(values, lo, hi, e) ==
    Sqrt(Clamp(0, ((hi - lo) * (hi - lo)) \div 4, NoisedVariance(values, lo, hi, e)))

\* BoundedMean(...).quick_result(values)
BoundedMean(values, lo, hi, e) ==
    LET c == Clamped(values, lo, hi)
        n == NoisedCount(values, e[1])
        sum == Sum(c) + e[2] * ((hi - lo) \div 2)
    IN  Clamp(lo, hi, sum \div n)

\* Count(...).quick_result(values)
Count(values, e) == Len(values) + e[1]

\* Max(...).quick_result(values)
Max(values, lo, hi, e) ==
    LET c == Clamped(values, lo, hi)
        top == IF c = << >> THEN lo ELSE MaxOf(Range(c))
    IN  Clamp(lo, hi, top + e[1] * ((hi - lo) \div 2))

\* line 123: trip_origins[trip_origins.Distance > limit]["Distance"]
Above(values, limit) == SelectSeq(values, LAMBDA v : v > limit)

TripDistances == {6000 * j : j \in 0..MaxTripDistance}

Limits == {5000 * j : j \in 0..MaxTripDistance}

\* the state after the cell of lines 43-49
InitDP ==
    /\ pc = "call"
    /\ KAnonymityIdle
    /\ buffer = 500
    /\ row_geometry = << >>
    /\ randgeom = << >>
    /\ randgpd = << >>
    /\ \E n \in 0..MaxTrips : Distances \in [1..n -> TripDistances]
    /\ called = "none"
    /\ entries = << >>
    /\ returned = 0
    /\ noise = << >>

\* lines 89-91
private_mean ==
    /\ pc = "call"
    /\ \E e \in [1..2 -> NoiseDraws] :
          /\ noise' = e
          /\ entries' = Distances
          /\ returned' = BoundedMean(Distances, LowerBound, UpperBound, e)
    /\ called' = "private_mean"
    /\ pc' = "returned"
    /\ UNCHANGED <<err, geoVars, k, walkVars, groupVars, maskVars, Distances>>

\* lines 121-123
private_count_above ==
    /\ pc = "call"
    /\ \E limit \in Limits, e \in [1..1 -> NoiseDraws] :
          /\ noise' = e
          /\ entries' = Above(Distances, limit)
          /\ returned' = Count(Above(Distances, limit), e)
    /\ called' = "private_count_above"
    /\ pc' = "returned"
    /\ UNCHANGED <<err, geoVars, k, walkVars, groupVars, maskVars, Distances>>

\* lines 143-145
private_sd ==
    /\ pc = "call"
    /\ \E e \in [1..3 -> NoiseDraws] :
          /\ noise' = e
          /\ entries' = Distances
          /\ returned' = BoundedStandardDeviation(Distances, LowerBound, UpperBound, e)
    /\ called' = "private_sd"
    /\ pc' = "returned"
    /\ UNCHANGED <<err, geoVars, k, walkVars, groupVars, maskVars, Distances>>

\* lines 158-160
private_max ==
    /\ pc = "call"
    /\ \E e \in [1..1 -> NoiseDraws] :
          /\ noise' = e
          /\ entries' = Distances
          /\ returned' = Max(Distances, MaxLowerBound, UpperBound, e)
    /\ called' = "private_max"
    /\ pc' = "returned"
    /\ UNCHANGED <<err, geoVars, k, walkVars, groupVars, maskVars, Distances>>

NextDP ==
    \/ private_mean
    \/ private_count_above
    \/ private_sd
    \/ private_max

SpecDP == InitDP /\ [][NextDP]_vars

C15_EmptyInputFails ==
    (pc = "returned" /\ entries = << >>) => err = "EmptyInput"

----------------------------------------------------------------------------
(* SpecCond: the whole k-anonymity notebook from the distance cell (line   *)
(* 162) to the attribute-conditioned set (line 366), on frames that carry  *)
(* the Gender column: the walk runs on the frame that line 310 re-ranked   *)
(* by distance to the focal row.                                           *)

GenderFrame(n, pts, g) ==
    [j \in 1..n |-> [index |-> j - 1, Plate |-> j, x |-> pts[j].x, y |-> pts[j].y,
                      Gender |-> g[j]]]

InitCond ==
    /\ pc = "distances"
    /\ err = "none"
    /\ \E n \in 1..MaxRanked :
          \E pts \in Locations(n), g \in [1..n -> {"Female", "Male"}] :
             trip_origins_geo = GenderFrame(n, pts, g)
    /\ me \in 1..Len(trip_origins_geo)
    /\ k = 5
    /\ sorted = << >>
    /\ trip_origins_k5 = << >>
    /\ hull_polygon = {}
    /\ bbox_polygon = {}
    /\ focal = << >>
    /\ row_iter = 0
    /\ i = 0
    /\ counter = 0
    /\ trip_origins_k5f = << >>
    /\ trip_origins = << >>
    /\ categories = << >>
    /\ observed = FALSE
    /\ to_count = << >>
    /\ violating = << >>
    /\ OtherNotebooksIdle

NextCond ==
    \/ CellDistances
    \/ CellSort
    \/ CellSelectK
    \/ CellHull
    \/ CellBBox
    \/ CellFocal
    \/ CellFocalError
    \/ CellRefocus
    \/ WalkStart
    \/ WalkIterate
    \/ WalkExhausted
    \/ WalkSlice

SpecCond == InitCond /\ [][NextCond]_vars

\* the rows of a frame, the target left out, that share the target's Gender
Companions(frame) ==
    {j \in DOMAIN frame : /\ frame[j].Plate # me
                          /\ frame[j].Gender = me_row[1].Gender}

\* C16: the attribute-conditioned anonymity set always contains the true
\* target record, also when it is computed by walking the frame re-ranked by
\* distance to the focal row; so it holds the target and at least k - 1 other
\* records with the target's Gender.  Stated for the inputs that are in
\* order: the ranked frame holds k matching rows, and no other record lies at
\* the target's location.
C16_ConditionedSetHoldsTarget ==
    (pc = "hull_k5f" /\ Matches(sorted) >= k /\ Cardinality(AtTarget) = 1) =>
        /\ me \in Plates(trip_origins_k5f)
        /\ Cardinality(Companions(trip_origins_k5f)) >= k - 1

====
